---------------------------- MODULE Spec2Model ----------------------------
(***************************************************************************)
(* A model of the lily tokenizers.                                         *)
(*                                                                         *)
(* lily-cst/src/spanner.rs: the Cursor over the scalars of a source        *)
(* buffer, Cursor::take_token (the dispatch on the first scalar) and lex   *)
(* (the iterator that pulls tokens until the Cursor is at EOF).            *)
(*                                                                         *)
(* A scalar is a string naming one Unicode scalar value: an ASCII scalar   *)
(* is itself ("a", "{", "\n"), "NUL" is '\0', and "U+xxxx" is the scalar   *)
(* with that code point.  Offsets are byte offsets into the UTF-8 buffer,  *)
(* as in the source (str::len, Chars::as_str).                             *)
(***************************************************************************)
EXTENDS Naturals, Sequences, FiniteSets, TLC

(***************************************************************************)
(* Bounds of the model.                                                    *)
(***************************************************************************)
\* Every source of at most MaxLen scalars over Alphabet is lexed.
MaxLen == 3
\* Every source of at most MaxCommentLen scalars over CommentAlphabet is lexed.
MaxCommentLen == 6
\* The number of pulls made after the iterator has returned None.
MaxNonePulls == 2
\* The number of calls of Lexer::next made on one Lexer.
MaxNexts == 10

(***************************************************************************)
(* Scalars and their classes.                                              *)
(***************************************************************************)
\* '\0', which peek_1 and peek_2 also return when no scalar is left.
NUL == "NUL"

\* Option::None of take() and of the iterator.
None == "None"

\* Unicode general category L (UnicodeCategories::is_letter).
Letters ==
    {"a", "b", "c", "d", "e", "f", "g", "h", "i", "l", "m", "n", "o", "p", "r",
     "t", "u", "w", "E", "S", "U", "U+00E9"}

\* Unicode general category N (UnicodeCategories::is_number): Nd, Nl and No.
Numbers == {"0", "1", "3", "7", "U+00BD"}

\* White_Space (char::is_whitespace).
Whitespaces == {" ", "\n", "\t"}

\* Unicode general category S (UnicodeCategories::is_symbol).
Symbols == {"+", "=", "$", "<", ">", "|"}

\* Unicode general category P (UnicodeCategories::is_punctuation).
Punctuations ==
    {"{", "}", "-", "\"", "'", "(", ")", "[", "]", ";", ":", ".", "_", "\\",
     "!", ","}

\* Scalars of no class above: a control character (Cc) and a combining
\* mark (Mn).
Others == {NUL, "U+0301"}

Scalar ==
    Letters \cup Numbers \cup Whitespaces \cup Symbols \cup Punctuations
        \cup Others

is_letter(c) == c \in Letters

is_number(c) == c \in Numbers

is_whitespace(c) == c \in Whitespaces

is_symbol(c) == c \in Symbols

is_punctuation(c) == c \in Punctuations

\* char::len_utf8: the bytes a scalar takes in the buffer.
len_utf8(c) == IF c \in {"U+00E9", "U+00BD", "U+0301"} THEN 2 ELSE 1

\* str::len: the byte length of a sequence of scalars.
RECURSIVE str_len(_)
str_len(s) == IF s = <<>> THEN 0 ELSE len_utf8(Head(s)) + str_len(Tail(s))

(***************************************************************************)
(* TokenError and TokenKind.                                               *)
(***************************************************************************)
TokenError ==
    {"UnfinishedBlockComment", "UnfinishedCharacter", "UnfinishedNumber",
     "UnfinishedString", "UnknownToken"}

Unknown(error) == "Unknown(" \o error \o ")"

TokenKind ==
    {"Character", "CommentBlock", "CommentLine", "Eof", "Identifier",
     "Integer", "Number", "String", "Symbol", "Syntax", "Whitespace"}
        \cup {Unknown(e) : e \in TokenError}

TokenSpan(begin, end, kind) == [begin |-> begin, end |-> end, kind |-> kind]

(***************************************************************************)
(* Cursor.  `length` is the field; `chars` is the rest of the buffer, which *)
(* is what the Chars iterator holds (Chars::as_str).  The operations are   *)
(* operators from the cursor's `chars` to what they return and to the      *)
(* `chars` they leave.                                                     *)
(***************************************************************************)
is_eof(chars) == chars = <<>>

\* consumed_len counting the scalars left, not their bytes.
consumed_len_in_scalars(length, chars) == length - Len(chars)

consumed_len(length, chars) == length - str_len(chars)

peek_1(chars) == IF chars = <<>> THEN NUL ELSE chars[1]

\* peek_2 without the chars.next() that skips the next scalar.
peek_2_without_skip(chars) == IF chars = <<>> THEN NUL ELSE chars[1]

peek_2(chars) == IF Len(chars) < 2 THEN NUL ELSE chars[2]

\* take(): what it returns (ret) and the chars it leaves.
take(chars) ==
    IF chars = <<>>
    THEN [ret |-> None, chars |-> chars]
    ELSE [ret |-> Head(chars), chars |-> Tail(chars)]

\* take_while taking the '\0' that peek_1 returns for the end of the input.
RECURSIVE take_while_stops_at_nul(_, _)
take_while_stops_at_nul(predicate, chars) ==
    IF peek_1(chars) \in predicate /\ peek_1(chars) # NUL
    THEN take_while_stops_at_nul(predicate, take(chars).chars)
    ELSE chars

\* take_while(predicate), the predicate given as the set of the scalars it
\* holds of; returns the chars it leaves.
RECURSIVE take_while(_, _)
take_while(predicate, chars) ==
    IF peek_1(chars) \in predicate /\ ~is_eof(chars)
    THEN take_while(predicate, take(chars).chars)
    ELSE chars

(***************************************************************************)
(* Cursor::take_token.  Each arm of the match is an operator from the      *)
(* chars left after the first take() to the kind of the token and the      *)
(* chars the arm leaves.                                                   *)
(***************************************************************************)
Scanned(kind, chars) == [kind |-> kind, chars |-> chars]

\* The loop of the block comment arm, entered after "{-" is consumed.
RECURSIVE block_comment_loop(_)
block_comment_loop(chars) ==
    LET run == take_while(Scalar \ {"-"}, chars)
    IN  IF peek_1(run) = "-" /\ peek_2(run) = "}"
        THEN Scanned("CommentBlock", take(take(run).chars).chars)
        ELSE IF take(run).ret = None
             THEN Scanned(Unknown("UnfinishedBlockComment"), take(run).chars)
             ELSE block_comment_loop(take(run).chars)

\* The block comment arm without the take() of the '-' that opens it.
block_comment_keeps_dash(chars) == block_comment_loop(chars)

\* '{' if self.peek_1() == '-'
block_comment(chars) == block_comment_loop(take(chars).chars)

\* The string arm peeking at the closing '"' instead of taking it.
string_closing_peeked(chars) ==
    LET run == take_while(Scalar \ {"\""}, chars)
    IN  IF peek_1(run) = "\"" /\ ~is_eof(run)
        THEN Scanned("String", run)
        ELSE Scanned(Unknown("UnfinishedString"), run)

\* '"'
string(chars) ==
    LET run == take_while(Scalar \ {"\""}, chars)
    IN  IF take(run).ret = "\""
        THEN Scanned("String", take(run).chars)
        ELSE Scanned(Unknown("UnfinishedString"), take(run).chars)

\* The character arm taking the scalar after the character, as the string
\* arm takes its closing quote, instead of peeking at it.
character_closing_taken(chars) ==
    LET one == take(chars).chars
    IN  IF take(one).ret = "'"
        THEN Scanned("Character", take(one).chars)
        ELSE Scanned(Unknown("UnfinishedCharacter"), take(one).chars)

\* '\''
character(chars) ==
    LET one == take(chars).chars
    IN  IF peek_1(one) = "'"
        THEN Scanned("Character", take(one).chars)
        ELSE Scanned(Unknown("UnfinishedCharacter"), one)

\* The arm consuming only the repeats of the initial scalar.
repeated_syntax_repeats_only(initial, chars) ==
    IF peek_1(chars) = initial
    THEN Scanned("Symbol", take_while({initial}, chars))
    ELSE Scanned("Syntax", chars)

\* initial @ (':' | '=' | '.')
repeated_syntax(initial, chars) ==
    IF peek_1(chars) = initial
    THEN Scanned("Symbol",
                 take_while(Symbols \cup Punctuations \cup {initial}, chars))
    ELSE Scanned("Syntax", chars)

\* The comment line arm consuming the newline too.
comment_line_with_newline(chars) ==
    Scanned("CommentLine", take(take_while(Scalar \ {"\n"}, chars)).chars)

\* '-' if self.peek_1() == '-'
comment_line(chars) ==
    Scanned("CommentLine", take_while(Scalar \ {"\n"}, chars))

\* The identifier arm without c.is_number().
identifier_without_numbers(chars) ==
    Scanned("Identifier", take_while(Letters \cup {"'", "_"}, chars))

\* initial if initial.is_letter() || initial == '_'
identifier(chars) ==
    Scanned("Identifier",
            take_while(Letters \cup Numbers \cup {"'", "_"}, chars))

\* initial if initial.is_whitespace()
whitespace(chars) == Scanned("Whitespace", take_while(Whitespaces, chars))

\* The number arm without the check of the scalar after the '.'.
number_unchecked_fraction(chars) ==
    LET run == take_while(Numbers, chars)
    IN  IF peek_1(run) = "."
        THEN Scanned("Number", take_while(Numbers, take(run).chars))
        ELSE Scanned("Integer", run)

\* initial if initial.is_number()
number(chars) ==
    LET run == take_while(Numbers, chars)
    IN  IF peek_1(run) = "."
        THEN LET dot == take(run).chars
             IN  IF is_number(peek_1(dot))
                 THEN Scanned("Number", take_while(Numbers, dot))
                 ELSE Scanned(Unknown("UnfinishedNumber"), dot)
        ELSE Scanned("Integer", run)

\* The operator arm stopping its run at a delimiter or a quote.
operator_stops_at_delimiter(chars) ==
    Scanned("Symbol",
            take_while((Symbols \cup Punctuations)
                           \ {"(", ")", "[", "]", "{", "}", ";", "\"", "'"},
                       chars))

\* initial if initial.is_symbol() || initial.is_punctuation()
operator(chars) ==
    Scanned("Symbol", take_while(Symbols \cup Punctuations, chars))

\* The match on the first scalar: the arms in the order of the source.
scan(initial, chars) ==
    IF initial = "{" /\ peek_1(chars) = "-" THEN block_comment(chars)
    ELSE IF initial = "\"" THEN string(chars)
    ELSE IF initial = "'" THEN character(chars)
    ELSE IF initial \in {";", "(", ")", "[", "]", "{", "}"}
         THEN Scanned("Syntax", chars)
    ELSE IF initial \in {":", "=", "."} THEN repeated_syntax(initial, chars)
    ELSE IF initial = "-" /\ peek_1(chars) = "-" THEN comment_line(chars)
    ELSE IF is_letter(initial) \/ initial = "_" THEN identifier(chars)
    ELSE IF is_whitespace(initial) THEN whitespace(chars)
    ELSE IF is_number(initial) THEN number(chars)
    ELSE IF is_symbol(initial) \/ is_punctuation(initial) THEN operator(chars)
    ELSE Scanned(Unknown("UnknownToken"), chars)

\* take_token recording begin after the first take().
take_token_begin_after_take(length, chars) ==
    LET first == take(chars)
        begin == consumed_len(length, first.chars)
    IN  IF first.ret = None
        THEN [panic |-> TRUE, span |-> TokenSpan(begin, begin, "Eof"),
              chars |-> first.chars]
        ELSE LET scanned == scan(first.ret, first.chars)
             IN  [panic |-> FALSE,
                  span  |-> TokenSpan(begin,
                                      consumed_len(length, scanned.chars),
                                      scanned.kind),
                  chars |-> scanned.chars]

\* take_token(): the span it returns, the chars it leaves, and whether
\* take().unwrap() panicked (no span is returned then).
take_token(length, chars) ==
    LET begin == consumed_len(length, chars)
        first == take(chars)
    IN  IF first.ret = None
        THEN [panic |-> TRUE, span |-> TokenSpan(begin, begin, "Eof"),
              chars |-> first.chars]
        ELSE LET scanned == scan(first.ret, first.chars)
             IN  [panic |-> FALSE,
                  span  |-> TokenSpan(begin,
                                      consumed_len(length, scanned.chars),
                                      scanned.kind),
                  chars |-> scanned.chars]

(***************************************************************************)
(* The sources lexed.                                                      *)
(***************************************************************************)
\* The sequences of at most n elements of S.
SeqsUpTo(S, n) == UNION {[1..k -> S] : k \in 0..n}

\* One scalar of every class take_token tells apart.
Alphabet ==
    {"{", "-", "}", "\"", "'", "(", ":", "=", ".", "\n", "a", "_", "1", "+",
     "\\", NUL, "U+00E9", "U+0301"}

\* The scalars of block comments, for longer sources.
CommentAlphabet == {"{", "-", "}", "a"}

\* tests::it_tokenizes_without_spaces: main=logShow"a"
it_tokenizes_without_spaces ==
    <<"m", "a", "i", "n", "=", "l", "o", "g", "S", "h", "o", "w", "\"", "a",
      "\"">>

\* The sources of the test and of the documented cases.
Samples ==
    { it_tokenizes_without_spaces,
      <<"0", "0", "7">>,
      <<"3", ".">>,
      <<"{", "-", " ", "a", "b", "c", " ", "-", "}">>,
      <<"{", "-", " ", "a", "b", "c">>,
      <<"-", "-", " ", "h", "i", "\n">>,
      <<"U+00BD", ".", "U+00BD", "U+00E9">> }

Sources ==
    SeqsUpTo(Alphabet, MaxLen) \cup SeqsUpTo(CommentAlphabet, MaxCommentLen)
        \cup Samples

(***************************************************************************)
(* lex: the state of the iterator and of its consumer.                     *)
(***************************************************************************)
VARIABLES
    source,   \* the buffer given to lex
    length,   \* Cursor::length
    chars,    \* Cursor::chars: the scalars not yet consumed
    tokens,   \* the TokenSpans the pulls have returned so far, in order
    nones,    \* the number of pulls that returned None
    aborted,  \* whether a pull panicked
    called,   \* the last Cursor operation a caller made, and what it returned
    takes,    \* the number of take() calls that returned a scalar
    offset,   \* Lexer::offset
    item,     \* what the last Lexer::next returned
    nexts     \* the number of calls of Lexer::next so far

vars ==
    <<source, length, chars, tokens, nones, aborted, called, takes, offset,
      item, nexts>>

\* Nothing called yet on the Cursor, and no Lexer in use.
NotCalled == [op |-> "new"]

NoItem == [tag |-> "NotPulled"]

\* lex(source): Cursor::new(source), nothing pulled yet.
Init ==
    /\ source \in Sources
    /\ length = str_len(source)
    /\ chars = source
    /\ tokens = <<>>
    /\ nones = 0
    /\ aborted = FALSE
    /\ called = NotCalled
    /\ takes = 0
    /\ offset = 0
    /\ item = NoItem
    /\ nexts = 0

\* The closure without the is_eof() check: every pull calls take_token.
Pull_unchecked ==
    /\ ~aborted
    /\ LET taken == take_token(length, chars)
       IN  /\ aborted' = taken.panic
           /\ chars' = taken.chars
           /\ tokens' = IF taken.panic THEN tokens
                        ELSE Append(tokens, taken.span)
           /\ UNCHANGED nones
    /\ UNCHANGED <<source, length, called, takes, offset, item, nexts>>

\* The closure starting over with a fresh Cursor once it has returned None.
Pull_restarting ==
    /\ ~aborted
    /\ IF is_eof(chars)
       THEN /\ nones < MaxNonePulls
            /\ nones' = nones + 1
            /\ chars' = source
            /\ UNCHANGED <<tokens, aborted>>
       ELSE LET taken == take_token(length, chars)
            IN  /\ aborted' = taken.panic
                /\ chars' = taken.chars
                /\ tokens' = IF taken.panic THEN tokens
                             ELSE Append(tokens, taken.span)
                /\ UNCHANGED nones
    /\ UNCHANGED <<source, length, called, takes, offset, item, nexts>>

\* One pull of the iterator: the closure given to std::iter::from_fn.
Pull ==
    /\ ~aborted
    /\ IF is_eof(chars)
       THEN /\ nones < MaxNonePulls
            /\ nones' = nones + 1
            /\ UNCHANGED <<chars, tokens, aborted>>
       ELSE LET taken == take_token(length, chars)
            IN  /\ aborted' = taken.panic
                /\ chars' = taken.chars
                /\ tokens' = IF taken.panic THEN tokens
                             ELSE Append(tokens, taken.span)
                /\ UNCHANGED nones
    /\ UNCHANGED <<source, length, called, takes, offset, item, nexts>>

Next == Pull

Spec == Init /\ [][Next]_vars

(***************************************************************************)
(* The Cursor used on its own: a caller makes any sequence of the public   *)
(* operations on a Cursor over a source.                                   *)
(***************************************************************************)
\* Scalars of one and of two bytes, '-' and '\0'.
CursorAlphabet == {"a", "-", NUL, "U+00E9"}

CursorSources == SeqsUpTo(CursorAlphabet, MaxLen)

\* The predicates given to take_while, each as the set of the scalars it
\* holds of: c != '-', c.is_letter(), c == '\0', and one that never holds.
Predicates == {Scalar \ {"-"}, Letters, {NUL}, {}}

\* Cursor::new(source).
CursorInit ==
    /\ source \in CursorSources
    /\ length = str_len(source)
    /\ chars = source
    /\ called = NotCalled
    /\ takes = 0
    /\ tokens = <<>>
    /\ nones = 0
    /\ aborted = FALSE
    /\ offset = 0
    /\ item = NoItem
    /\ nexts = 0

Returned(op, ret) == [op |-> op, ret |-> ret]

IsEof ==
    /\ called' = Returned("is_eof", is_eof(chars))
    /\ UNCHANGED <<source, length, chars, takes, tokens, nones, aborted,
                   offset, item, nexts>>

ConsumedLen ==
    /\ called' = Returned("consumed_len", consumed_len(length, chars))
    /\ UNCHANGED <<source, length, chars, takes, tokens, nones, aborted,
                   offset, item, nexts>>

Peek1 ==
    /\ called' = Returned("peek_1", peek_1(chars))
    /\ UNCHANGED <<source, length, chars, takes, tokens, nones, aborted,
                   offset, item, nexts>>

Peek2 ==
    /\ called' = Returned("peek_2", peek_2(chars))
    /\ UNCHANGED <<source, length, chars, takes, tokens, nones, aborted,
                   offset, item, nexts>>

Take ==
    /\ called' = Returned("take", take(chars).ret)
    /\ chars' = take(chars).chars
    /\ takes' = IF take(chars).ret = None THEN takes ELSE takes + 1
    /\ UNCHANGED <<source, length, tokens, nones, aborted, offset, item,
                   nexts>>

\* take_while(predicate): every scalar it consumes is one take().
TakeWhile ==
    \E predicate \in Predicates :
        /\ called' = Returned("take_while", predicate)
        /\ chars' = take_while(predicate, chars)
        /\ takes' = takes + (Len(chars) - Len(take_while(predicate, chars)))
        /\ UNCHANGED <<source, length, tokens, nones, aborted, offset, item,
                       nexts>>

CursorNext == IsEof \/ ConsumedLen \/ Peek1 \/ Peek2 \/ Take \/ TakeWhile

CursorSpec == CursorInit /\ [][CursorNext]_vars

(***************************************************************************)
(* lily-cst/src/lib.rs: the Lexer that tries every pattern on the window   *)
(* (the source from `offset` on) and keeps the longest match.  A pattern   *)
(* is an operator from the window to its match: the number of scalars      *)
(* matched (every pattern is anchored with ^, so a match starts at 0 of    *)
(* the window) and what the pattern's closure creates.                     *)
(***************************************************************************)
\* \p{Lu} and \p{Ll}
UppercaseLetters == {"E", "S", "U"}

LowercaseLetters == Letters \ UppercaseLetters

\* [0-9]
AsciiDigits == {"0", "1", "2", "3", "4", "5", "6", "7", "8", "9"}

\* [\p{L}+_0-9']
NameScalars == Letters \cup AsciiDigits \cup {"+", "_", "'"}

\* [:!#$%&*+./<=>?@\\^|~-]|(?!\p{P})\p{S}
SymbolScalars ==
    {":", "!", "#", "$", "%", "&", "*", "+", ".", "/", "<", "=", ">", "?",
     "@", "\\", "^", "|", "~", "-"} \cup (Symbols \ Punctuations)

\* [\[\](){}@,=.|`_], the backtick being U+0060
ReservedScalars ==
    {"[", "]", "(", ")", "{", "}", "@", ",", "=", ".", "|", "U+0060", "_"}

\* The number of scalars of the longest prefix of s that lies in P: what a
\* greedy P* matches.
RECURSIVE prefix_len(_, _)
prefix_len(P, s) ==
    IF s # <<>> /\ Head(s) \in P THEN 1 + prefix_len(P, Tail(s)) ELSE 0

\* The rest of s after its first n scalars.
drop(n, s) == SubSeq(s, n + 1, Len(s))

\* str::trim
RECURSIVE trim_end(_)
trim_end(s) ==
    IF s # <<>> /\ s[Len(s)] \in Whitespaces
    THEN trim_end(SubSeq(s, 1, Len(s) - 1))
    ELSE s

trim(s) == trim_end(drop(prefix_len(Whitespaces, s), s))

\* Token and Error values, and the Result of a closure.
Token(tag, value) == [tag |-> tag, value |-> value]

Error(tag, position) == [error |-> tag, position |-> position]

InternalPanic == [error |-> "InternalPanic"]

Ok(token) == [tag |-> "Ok", token |-> token]

Err(error) == [tag |-> "Err", error |-> error]

NoMatch == [matched |-> FALSE]

\* A match of n scalars, starting at `start` of the window.
Match(start, n, created) ==
    [matched |-> TRUE, start |-> start, n |-> n, created |-> created]

\* str::parse::<i64> of a run of ASCII digits (a run of the length the model
\* reaches is below i64::MAX, so the parse succeeds).
RECURSIVE parse_i64(_)
parse_i64(digits) ==
    IF digits = <<>> THEN 0
    ELSE 10 * parse_i64(SubSeq(digits, 1, Len(digits) - 1))
             + (CHOOSE v \in 0..9 :
                    digits[Len(digits)] =
                        <<"0", "1", "2", "3", "4", "5", "6", "7", "8",
                          "9">>[v + 1])

\* str::parse::<f64> of digits '.' digits: the integer part and the digits
\* of the fraction without its trailing zeros.
RECURSIVE strip_zeros(_)
strip_zeros(digits) ==
    IF digits # <<>> /\ digits[Len(digits)] = "0"
    THEN strip_zeros(SubSeq(digits, 1, Len(digits) - 1))
    ELSE digits

parse_f64(whole, fraction) ==
    [whole |-> parse_i64(whole), fraction |-> strip_zeros(fraction)]

\* ^\p{Lu}[\p{L}+_0-9']*
pattern_name_upper(window) ==
    IF window # <<>> /\ window[1] \in UppercaseLetters
    THEN LET n == 1 + prefix_len(NameScalars, Tail(window))
         IN  Match(0, n, Ok(Token("NameUpper", SubSeq(window, 1, n))))
    ELSE NoMatch

\* ^[\p{Ll}_][\p{L}+_0-9']*
pattern_name_lower(window) ==
    IF window # <<>> /\ window[1] \in LowercaseLetters \cup {"_"}
    THEN LET n == 1 + prefix_len(NameScalars, Tail(window))
         IN  Match(0, n, Ok(Token("NameLower", SubSeq(window, 1, n))))
    ELSE NoMatch

\* ^([:!#$%&*+./<=>?@\\^|~-]|(?!\p{P})\p{S})+
pattern_name_symbol(window) ==
    LET n == prefix_len(SymbolScalars, window)
    IN  IF n >= 1
        THEN Match(0, n, Ok(Token("NameSymbol", SubSeq(window, 1, n))))
        ELSE NoMatch

\* The closure of the digit pattern: m is group 0, which starts at `start`
\* and is `whole` (group 1) followed by `fraction` (group 2, empty when it
\* did not take part in the match).
digit_closure(start, whole, fraction) ==
    IF Len(whole) >= 2 /\ SubSeq(whole, 1, 2) = <<"0", "0">>
    THEN Err(Error("UnecessaryLeadingZeroes", start))
    ELSE IF fraction # <<>>
         THEN Ok(Token("DigitDouble", parse_f64(whole, Tail(fraction))))
         ELSE Ok(Token("DigitInteger", parse_i64(whole)))

\* ^([0-9]+)(\.[0-9]+)?
pattern_digit(window) ==
    LET n1 == prefix_len(AsciiDigits, window)
        rest == drop(n1, window)
        n2 == IF rest # <<>> /\ rest[1] = "."
                   /\ prefix_len(AsciiDigits, Tail(rest)) >= 1
              THEN 1 + prefix_len(AsciiDigits, Tail(rest))
              ELSE 0
    IN  IF n1 >= 1
        THEN Match(0, n1 + n2,
                   digit_closure(0, SubSeq(window, 1, n1),
                                 SubSeq(rest, 1, n2)))
        ELSE NoMatch

\* ^--( *\|)?(.+)\n*
\* (.+) needs one scalar of the line; group 1 takes part only when a scalar
\* of the line is left after its '|'.
pattern_comment_line(window) ==
    IF Len(window) >= 2 /\ window[1] = "-" /\ window[2] = "-"
    THEN LET rest == drop(2, window)
             line == prefix_len(Scalar \ {"\n"}, rest)
             newlines == prefix_len({"\n"}, drop(line, rest))
             spaces == prefix_len({" "}, rest)
             piped == /\ spaces < line
                      /\ rest[spaces + 1] = "|"
                      /\ spaces + 1 < line
             group2 == IF piped THEN SubSeq(rest, spaces + 2, line)
                       ELSE SubSeq(rest, 1, line)
         IN  IF line >= 1
             THEN Match(0, 2 + line + newlines,
                        Ok(Token("CommentLine", trim(group2))))
             ELSE NoMatch
    ELSE NoMatch

\* ^(::|->|=>|<-|<=)
pattern_arrow(window) ==
    IF Len(window) >= 2
    THEN LET two == SubSeq(window, 1, 2)
         IN  IF two = <<":", ":">>
             THEN Match(0, 2, Ok(Token("SymbolColon", <<>>)))
             ELSE IF two = <<"-", ">">>
             THEN Match(0, 2, Ok(Token("ArrowFunction", <<>>)))
             ELSE IF two = <<"=", ">">>
             THEN Match(0, 2, Ok(Token("ArrowConstraint", <<>>)))
             ELSE IF two \in {<<"<", "=">>, <<"<", "-">>}
             THEN Match(0, 2, Ok(Token("NameSymbol", two)))
             ELSE NoMatch
    ELSE NoMatch

\* The token of each reserved scalar.
ReservedToken(c) ==
    CASE c = "(" -> "ParenLeft"
      [] c = ")" -> "ParenRight"
      [] c = "[" -> "SquareLeft"
      [] c = "]" -> "SquareRight"
      [] c = "{" -> "BracketLeft"
      [] c = "}" -> "BracketRight"
      [] c = "@" -> "SymbolAt"
      [] c = "," -> "SymbolComma"
      [] c = "=" -> "SymbolEquals"
      [] c = "." -> "SymbolPeriod"
      [] c = "|" -> "SymbolPipe"
      [] c = "U+0060" -> "SymbolTick"
      [] c = "_" -> "SymbolUnderscore"

\* ^[\[\](){}@,=.|`_]
pattern_reserved(window) ==
    IF window # <<>> /\ window[1] \in ReservedScalars
    THEN Match(0, 1, Ok(Token(ReservedToken(window[1]), <<>>)))
    ELSE NoMatch

\* Lexer::patterns, in the order of Lexer::new.
patterns(window) ==
    << pattern_name_upper(window), pattern_name_lower(window),
       pattern_name_symbol(window), pattern_digit(window),
       pattern_comment_line(window), pattern_arrow(window),
       pattern_reserved(window) >>

\* c.get(0).unwrap().end(): the byte offset in the window where a match ends.
match_end(window, m) == str_len(SubSeq(window, 1, m.start + m.n))

\* filter_map(..).max_by_key(|(length, _)| *length): of the matches, the one
\* that ends last, and of several that end there the last in the order of
\* the patterns (Iterator::max_by_key); NoMatch when no pattern matches.
longest_match(window) ==
    LET all == patterns(window)
        matching == {i \in 1..Len(all) : all[i].matched}
        best == CHOOSE i \in matching :
                    \A j \in matching :
                        \/ match_end(window, all[j]) < match_end(window, all[i])
                        \/ /\ match_end(window, all[j])
                                = match_end(window, all[i])
                           /\ j <= i
    IN  IF matching = {} THEN NoMatch
        ELSE [matched |-> TRUE, length |-> match_end(window, all[best]),
              created |-> all[best].created]

\* Lexer::window: &self.source[self.offset..], as scalars.
RECURSIVE window_of(_, _)
window_of(src, off) ==
    IF off = 0 \/ src = <<>> THEN src
    ELSE window_of(Tail(src), off - len_utf8(Head(src)))

\* ^\s+ on the window: m.end(), or 0 when there is no match.
whitespace_end(window) ==
    str_len(SubSeq(window, 1, prefix_len(Whitespaces, window)))

\* next() moving the offset past the match whose closure returned Err.
next_skipping_rejected(src, off) ==
    IF off >= str_len(src)
    THEN [item |-> [tag |-> "None"], offset |-> off]
    ELSE LET skipped == off + whitespace_end(window_of(src, off))
             longest == longest_match(window_of(src, skipped))
         IN  IF ~longest.matched
             THEN [item   |-> Err(Error("UnrecognizedToken", skipped)),
                   offset |-> skipped]
             ELSE IF longest.created.tag = "Ok"
             THEN [item   |-> [tag |-> "Ok", left |-> skipped,
                               token |-> longest.created.token,
                               right |-> skipped + longest.length],
                   offset |-> skipped + longest.length]
             ELSE [item   |-> longest.created,
                   offset |-> skipped + longest.length]

\* What next() returns and the offset it leaves, for a Lexer at offset
\* `off` of `src`.
next(src, off) ==
    IF off >= str_len(src)
    THEN [item |-> [tag |-> "None"], offset |-> off]
    ELSE LET skipped == off + whitespace_end(window_of(src, off))
             longest == longest_match(window_of(src, skipped))
         IN  IF ~longest.matched
             THEN [item   |-> Err(Error("UnrecognizedToken", skipped)),
                   offset |-> skipped]
             ELSE IF longest.created.tag = "Ok"
             THEN [item   |-> [tag |-> "Ok", left |-> skipped,
                               token |-> longest.created.token,
                               right |-> skipped + longest.length],
                   offset |-> skipped + longest.length]
             ELSE [item |-> longest.created, offset |-> skipped]

\* it_works_as_intended: "main :: Effect Unit\nmain = do\n  pure unit"
it_works_as_intended ==
    <<"m", "a", "i", "n", " ", ":", ":", " ", "E", "f", "f", "e", "c", "t",
      " ", "U", "n", "i", "t", "\n", "m", "a", "i", "n", " ", "=", " ", "d",
      "o", "\n", " ", " ", "p", "u", "r", "e", " ", "u", "n", "i", "t">>

\* A scalar for each way the patterns treat a window, one of them of two
\* bytes.
LexerAlphabet ==
    {"0", "7", ".", "\n", "a", "=", "-", "\"", "S", "U+00E9"}

LexerSamples ==
    { it_works_as_intended,
      <<"0", "0", ".", "7">>,
      <<"a", " ", "0", "0", "7">>,
      <<"-", "-", " ", "|", " ", "a", " ", "\n", "\n", "a">>,
      <<":", ":", "-", ">", "(", "=", ">", ")">> }

LexerSources == SeqsUpTo(LexerAlphabet, MaxLen) \cup LexerSamples

\* Lexer::new(source).
LexerInit ==
    /\ source \in LexerSources
    /\ offset = 0
    /\ item = NoItem
    /\ nexts = 0
    /\ length = str_len(source)
    /\ chars = source
    /\ tokens = <<>>
    /\ nones = 0
    /\ aborted = FALSE
    /\ called = NotCalled
    /\ takes = 0

\* One call of Lexer::next.
LexerNextItem ==
    /\ nexts < MaxNexts
    /\ nexts' = nexts + 1
    /\ item' = next(source, offset).item
    /\ offset' = next(source, offset).offset
    /\ UNCHANGED <<source, length, chars, tokens, nones, aborted, called,
                   takes>>

LexerNext == LexerNextItem

LexerSpec == LexerInit /\ [][LexerNext]_vars

(***************************************************************************)
(* What the claims speak of.                                               *)
(***************************************************************************)
\* L: the byte length of the source.
L == str_len(source)

\* The byte offset after the first i scalars of the source.
OffsetOf(i) == str_len(SubSeq(source, 1, i))

\* The number of scalars of the source before the byte offset off.
IndexAt(off) == CHOOSE i \in 0..Len(source) : OffsetOf(i) = off

\* The index in the source of the first scalar of a token, and of its last.
FirstOf(t) == IndexAt(t.begin) + 1

LastOf(t) == IndexAt(t.end)

\* The scalars a token covers: the source sliced with [begin, end).
Text(t) == SubSeq(source, FirstOf(t), LastOf(t))

\* The last token pulled.
LastToken == tokens[Len(tokens)]

\* The iterator has been pulled to exhaustion.
Exhausted == nones > 0

\* The index of the last scalar of the maximal run of scalars of S that
\* starts at index i of the source (i - 1 when the run is empty).
RunEnd(S, i) ==
    CHOOSE j \in (i - 1)..Len(source) :
        /\ \A k \in i..j : source[k] \in S
        /\ j < Len(source) => source[j + 1] \notin S

UnknownKinds == {Unknown(e) : e \in TokenError}

(***************************************************************************)
(* C1.  Pulled to exhaustion, the spans of a source of L > 0 bytes tile    *)
(* [0, L): the first span begins at 0, each later span begins where the    *)
(* previous one ends, and the last span ends at L.                         *)
(***************************************************************************)
C1_SpansTileSource ==
    (Exhausted /\ L > 0) =>
        /\ tokens # <<>>
        /\ tokens[1].begin = 0
        /\ \A k \in 2..Len(tokens) : tokens[k].begin = tokens[k - 1].end
        /\ LastToken.end = L

\* A source with a two-byte scalar, lexed to exhaustion into three tokens.
C1_Witness ==
    /\ Exhausted
    /\ Len(tokens) = 3
    /\ \E i \in 1..Len(source) : len_utf8(source[i]) = 2
    /\ L > Len(source)

(***************************************************************************)
(* C2.  Every span is non-empty: begin < end, whatever arm classified the  *)
(* token.                                                                  *)
(***************************************************************************)
C2_SpansNonEmpty == \A k \in 1..Len(tokens) : tokens[k].begin < tokens[k].end

\* Two Unknown tokens of different arms, and a token that is not Unknown.
C2_Witness ==
    /\ Len(tokens) = 3
    /\ tokens[1].kind = Unknown("UnknownToken")
    /\ tokens[2].kind = "Syntax"
    /\ tokens[3].kind = Unknown("UnfinishedString")

(***************************************************************************)
(* C3.  The sequence is finite: at most L tokens are yielded, a pull at    *)
(* the end of the buffer returns None, the empty source yields no token,   *)
(* and after a None no pull returns a token.                               *)
(***************************************************************************)
C3_FiniteSequence ==
    /\ [](Len(tokens) <= L)
    /\ [](source = <<>> => tokens = <<>>)
    /\ [][str_len(chars) = 0 => (nones' = nones + 1 /\ tokens' = tokens)]_vars
    /\ [][nones > 0 => tokens' = tokens]_vars

\* A source of three bytes that yielded three tokens, then None twice.
C3_Witness == nones = 2 /\ Len(tokens) = 3 /\ L = 3

(***************************************************************************)
(* C4.  lex never aborts: no pull panics; a pull returns a token, or None  *)
(* with the cursor at EOF; after an Unknown token that ends before L the   *)
(* next pull returns a token that begins at that end; and a token whose    *)
(* first scalar no arm recognizes is Unknown(UnknownToken) and covers that *)
(* one scalar.                                                             *)
(***************************************************************************)
Unrecognized(c) ==
    ~(\/ is_letter(c) \/ is_number(c) \/ is_whitespace(c)
      \/ is_symbol(c) \/ is_punctuation(c))

C4_NeverAborts ==
    /\ [](~aborted)
    /\ [][\/ /\ Len(tokens') = Len(tokens) + 1
             /\ SubSeq(tokens', 1, Len(tokens)) = tokens
             /\ nones' = nones
          \/ /\ str_len(chars) = 0
             /\ nones' = nones + 1
             /\ tokens' = tokens]_vars
    /\ [][(/\ tokens # <<>>
           /\ LastToken.kind \in UnknownKinds
           /\ LastToken.end < L)
          => /\ Len(tokens') = Len(tokens) + 1
             /\ tokens'[Len(tokens')].begin = LastToken.end]_vars
    /\ [](\A k \in 1..Len(tokens) :
            Unrecognized(source[FirstOf(tokens[k])]) =>
                /\ tokens[k].kind = Unknown("UnknownToken")
                /\ Text(tokens[k]) = <<source[FirstOf(tokens[k])]>>)

\* An unrecognized two-byte scalar was lexed, and a further token after it.
C4_Witness ==
    /\ Len(tokens) = 2
    /\ tokens[1].kind = Unknown("UnknownToken")
    /\ tokens[1].end = 2
    /\ tokens[2].kind = Unknown("UnfinishedCharacter")
    /\ tokens[2].begin = 2
    /\ ~aborted

(***************************************************************************)
(* C5.  Tokens written without whitespace between them are separated: an   *)
(* Identifier covers scalars that are letters, numbers, ' or _ and ends    *)
(* before the first scalar that is none of these; a token that starts with *)
(* '=' not followed by '=' is Syntax and covers that one scalar; a token   *)
(* that starts with '"' and has a later '"' is String and ends with the    *)
(* next '"'.  The source of it_tokenizes_without_spaces yields the four    *)
(* tokens of the test and nothing else.                                    *)
(***************************************************************************)
Min(S) == CHOOSE x \in S : \A y \in S : x <= y

IdentifierScalar(c) == is_letter(c) \/ is_number(c) \/ c \in {"'", "_"}

C5_TokensWithoutSpaces ==
    /\ \A k \in 1..Len(tokens) :
         LET t == tokens[k]
             i == FirstOf(t)
             Quotes == {j \in (i + 1)..Len(source) : source[j] = "\""}
         IN  /\ t.kind = "Identifier" =>
                  /\ \A j \in i..LastOf(t) : IdentifierScalar(source[j])
                  /\ LastOf(t) < Len(source) =>
                         ~IdentifierScalar(source[LastOf(t) + 1])
             /\ (/\ source[i] = "="
                 /\ (i = Len(source) \/ source[i + 1] # "=")) =>
                  (t.kind = "Syntax" /\ LastOf(t) = i)
             /\ (source[i] = "\"" /\ Quotes # {}) =>
                  (t.kind = "String" /\ LastOf(t) = Min(Quotes))
    /\ (source = it_tokenizes_without_spaces /\ Exhausted) =>
         tokens = << TokenSpan(0, 4, "Identifier"), TokenSpan(4, 5, "Syntax"),
                     TokenSpan(5, 12, "Identifier"),
                     TokenSpan(12, 15, "String") >>

\* The source of the test, lexed to exhaustion.
C5_Witness ==
    /\ source = it_tokenizes_without_spaces
    /\ Exhausted
    /\ Len(tokens) = 4

(***************************************************************************)
(* C6.  A token whose first two scalars are '{' '-' is CommentBlock and    *)
(* ends right after the first "-}" that follows those two scalars, when    *)
(* there is one; otherwise it is Unknown(UnfinishedBlockComment) and ends  *)
(* at L.                                                                   *)
(***************************************************************************)
C6_BlockComment ==
    \A k \in 1..Len(tokens) :
        LET t == tokens[k]
            i == FirstOf(t)
            Closers == {j \in (i + 2)..(Len(source) - 1) :
                            source[j] = "-" /\ source[j + 1] = "}"}
        IN  (source[i] = "{" /\ i < Len(source) /\ source[i + 1] = "-") =>
                IF Closers # {}
                THEN t.kind = "CommentBlock" /\ LastOf(t) = Min(Closers) + 1
                ELSE /\ t.kind = Unknown("UnfinishedBlockComment")
                     /\ t.end = L

\* "{-}-}" and a scalar after it: the '-' of "{-}" closes nothing, the
\* comment ends with the "-}" after it, and a further token follows.
C6_Witness ==
    /\ Len(source) = 6
    /\ SubSeq(source, 1, 5) = <<"{", "-", "}", "-", "}">>
    /\ Len(tokens) = 2
    /\ tokens[1] = TokenSpan(0, 5, "CommentBlock")

(***************************************************************************)
(* C7.  A token whose first scalar is a digit (a scalar of is_number)      *)
(* covers the maximal digit run; it is Integer when the scalar after the   *)
(* run is not '.', Number covering digits '.' digits when the run is       *)
(* followed by '.' and a digit, and Unknown(UnfinishedNumber) covering the *)
(* run and the '.' when the '.' is followed by no digit.  007 is           *)
(* Integer[0,3) and 3. is one Unknown(UnfinishedNumber)[0,2).              *)
(***************************************************************************)
Digits == {c \in Scalar : is_number(c)}

C7_Numbers ==
    /\ \A k \in 1..Len(tokens) :
         LET t == tokens[k]
             i == FirstOf(t)
             j == RunEnd(Digits, i)
         IN  is_number(source[i]) =>
               IF j < Len(source) /\ source[j + 1] = "."
               THEN IF j + 2 <= Len(source) /\ is_number(source[j + 2])
                    THEN /\ t.kind = "Number"
                         /\ LastOf(t) = RunEnd(Digits, j + 2)
                    ELSE /\ t.kind = Unknown("UnfinishedNumber")
                         /\ LastOf(t) = j + 1
               ELSE t.kind = "Integer" /\ LastOf(t) = j
    /\ (source = <<"0", "0", "7">> /\ Exhausted) =>
         tokens = <<TokenSpan(0, 3, "Integer")>>
    /\ (source = <<"3", ".">> /\ Exhausted) =>
         tokens = <<TokenSpan(0, 2, Unknown("UnfinishedNumber"))>>

\* A digit run, '.', and a scalar that is no digit: the Unknown token ends
\* after the '.', and the scalar after it starts the next token.
C7_Witness ==
    /\ Len(source) = 3
    /\ source[2] = "."
    /\ Len(tokens) = 2
    /\ tokens[1] = TokenSpan(0, 2, Unknown("UnfinishedNumber"))
    /\ tokens[2].kind = "Identifier"

(***************************************************************************)
(* C8.  A token whose first scalar c is ':', '=' or '.': when the next     *)
(* scalar is c, it is Symbol and covers c and the maximal run of symbol or *)
(* punctuation scalars after it; otherwise it is Syntax and covers c       *)
(* alone, also when the next scalar is a symbol.  :: is Symbol[0,2).       *)
(***************************************************************************)
SymbolOrPunctuation == {c \in Scalar : is_symbol(c) \/ is_punctuation(c)}

C8_RepeatedSyntax ==
    /\ \A k \in 1..Len(tokens) :
         LET t == tokens[k]
             i == FirstOf(t)
         IN  source[i] \in {":", "=", "."} =>
               IF i < Len(source) /\ source[i + 1] = source[i]
               THEN /\ t.kind = "Symbol"
                    /\ LastOf(t) = RunEnd(SymbolOrPunctuation, i + 1)
               ELSE t.kind = "Syntax" /\ LastOf(t) = i
    /\ (source = <<":", ":">> /\ Exhausted) =>
         tokens = <<TokenSpan(0, 2, "Symbol")>>

\* ":=" and a letter: ':' is Syntax alone although '=' is a symbol.
C8_Witness ==
    /\ Len(source) = 3
    /\ SubSeq(source, 1, 2) = <<":", "=">>
    /\ Len(tokens) = 3
    /\ tokens[1] = TokenSpan(0, 1, "Syntax")
    /\ tokens[2] = TokenSpan(1, 2, "Syntax")

(***************************************************************************)
(* C9.  A token whose first two scalars are '-' '-' is CommentLine; it     *)
(* ends right before the first newline after them, or at L when there is   *)
(* none; it holds no newline; and the newline starts the next token, which *)
(* is Whitespace.                                                          *)
(***************************************************************************)
C9_CommentLine ==
    \A k \in 1..Len(tokens) :
        LET t == tokens[k]
            i == FirstOf(t)
            Newlines == {j \in (i + 2)..Len(source) : source[j] = "\n"}
        IN  (source[i] = "-" /\ i < Len(source) /\ source[i + 1] = "-") =>
              /\ t.kind = "CommentLine"
              /\ \A j \in i..LastOf(t) : source[j] # "\n"
              /\ IF Newlines = {}
                 THEN t.end = L
                 ELSE /\ LastOf(t) = Min(Newlines) - 1
                      /\ k < Len(tokens) =>
                           /\ tokens[k + 1].kind = "Whitespace"
                           /\ FirstOf(tokens[k + 1]) = Min(Newlines)

\* "-- hi\n": the comment ends before the newline, which is the next token.
C9_Witness ==
    /\ source = <<"-", "-", " ", "h", "i", "\n">>
    /\ tokens = <<TokenSpan(0, 5, "CommentLine"), TokenSpan(5, 6, "Whitespace")>>

(***************************************************************************)
(* C10.  A token whose first scalar is '"' is String and ends right after  *)
(* the next '"', when there is one; otherwise it is                        *)
(* Unknown(UnfinishedString), ends at L and is the last token.             *)
(***************************************************************************)
C10_Strings ==
    \A k \in 1..Len(tokens) :
        LET t == tokens[k]
            i == FirstOf(t)
            Quotes == {j \in (i + 1)..Len(source) : source[j] = "\""}
        IN  source[i] = "\"" =>
              IF Quotes # {}
              THEN t.kind = "String" /\ LastOf(t) = Min(Quotes)
              ELSE /\ t.kind = Unknown("UnfinishedString")
                   /\ t.end = L
                   /\ k = Len(tokens)

\* An unfinished string over a two-byte scalar, pulled to exhaustion after
\* an earlier token.
C10_Witness ==
    /\ Exhausted
    /\ Len(tokens) = 2
    /\ tokens[2] = TokenSpan(1, 4, Unknown("UnfinishedString"))
    /\ Len(source) = 3

(***************************************************************************)
(* C11.  A token whose first scalar is ' is Character and covers three     *)
(* scalars exactly when the scalar two places after the quote exists and   *)
(* is '; otherwise it is Unknown(UnfinishedCharacter) and covers the quote *)
(* and the one scalar after it (the quote alone at the end of the input),  *)
(* and the scalar that is no closing quote starts the next token.          *)
(***************************************************************************)
C11_Characters ==
    \A k \in 1..Len(tokens) :
        LET t == tokens[k]
            i == FirstOf(t)
        IN  source[i] = "'" =>
              /\ t.kind \in {"Character", Unknown("UnfinishedCharacter")}
              /\ t.kind = "Character" <=>
                   (i + 2 <= Len(source) /\ source[i + 2] = "'")
              /\ t.kind = "Character" => LastOf(t) = i + 2
              /\ t.kind = Unknown("UnfinishedCharacter") =>
                   /\ LastOf(t) = IF i < Len(source) THEN i + 1 ELSE i
                   /\ k < Len(tokens) => FirstOf(tokens[k + 1]) = i + 2

\* "'a" and a scalar that is no quote: the token covers the two scalars and
\* the third scalar is a token of its own.
C11_Witness ==
    /\ Len(source) = 3
    /\ source[1] = "'"
    /\ source[3] = "a"
    /\ Len(tokens) = 2
    /\ tokens[1] = TokenSpan(0, 2, Unknown("UnfinishedCharacter"))
    /\ tokens[2] = TokenSpan(2, 3, "Identifier")

(***************************************************************************)
(* C12.  Each reserved symbol of the TokenKind::Syntax documentation       *)
(* (. = \ ( [ { } ] )), standing alone before whitespace or the end of the *)
(* input, is a Syntax token of one scalar.                                 *)
(***************************************************************************)
ReservedSymbols == {".", "=", "\\", "(", "[", "{", "}", "]", ")"}

C12_ReservedSymbolsAreSyntax ==
    \A k \in 1..Len(tokens) :
        LET t == tokens[k]
            i == FirstOf(t)
        IN  (/\ source[i] \in ReservedSymbols
             /\ (i = Len(source) \/ is_whitespace(source[i + 1]))) =>
                (t.kind = "Syntax" /\ LastOf(t) = i)

(***************************************************************************)
(* C16.  A token whose first scalar is a symbol or punctuation scalar that *)
(* no earlier arm takes is Symbol and covers the maximal run of symbol or  *)
(* punctuation scalars after it, delimiters and quotes included: +( is one *)
(* Symbol[0,2).                                                            *)
(***************************************************************************)
\* The first scalar at index i is left to the operator arm.
ReachesOperatorArm(i) ==
    /\ is_symbol(source[i]) \/ is_punctuation(source[i])
    /\ source[i] \notin
         {"\"", "'", ";", "(", ")", "[", "]", "{", "}", ":", "=", ".", "_"}
    /\ ~(/\ source[i] = "-"
         /\ i < Len(source)
         /\ source[i + 1] = "-")

C16_Operators ==
    /\ \A k \in 1..Len(tokens) :
         LET t == tokens[k]
             i == FirstOf(t)
         IN  ReachesOperatorArm(i) =>
               /\ t.kind = "Symbol"
               /\ LastOf(t) = RunEnd(SymbolOrPunctuation, i + 1)
    /\ (Len(source) = 2 /\ source = <<"+", "(">> /\ Exhausted) =>
         tokens = <<TokenSpan(0, 2, "Symbol")>>

\* An operator, a quote and a delimiter are one Symbol token.
C16_Witness ==
    /\ Len(source) = 3
    /\ source = <<"+", "\"", "(">>
    /\ tokens = <<TokenSpan(0, 3, "Symbol")>>

C14_CursorFrame ==
    /\ [][consumed_len(length', chars') >= consumed_len(length, chars)]_vars
    /\ [][called'.op \in {"is_eof", "consumed_len", "peek_1", "peek_2"}
            => chars' = chars]_vars
    /\ [][called'.op = "peek_1"
            => (called'.ret = NUL <=> (Len(chars) < 1 \/ chars[1] = NUL))]_vars
    /\ [][called'.op = "peek_2"
            => (called'.ret = NUL <=> (Len(chars) < 2 \/ chars[2] = NUL))]_vars
    /\ [][(called'.op = "take" /\ Len(chars) = 0)
            => (called'.ret = None /\ chars' = chars)]_vars

\* peek_2 returned a scalar that is not '\0' after a take(), and the cursor
\* still holds that scalar.
C14_Witness ==
    /\ called.op = "peek_2"
    /\ called.ret = "U+00E9"
    /\ takes = 1
    /\ Len(chars) = 2
    /\ chars[2] = "U+00E9"

(***************************************************************************)
(* C15.  take_while(p) consumes the longest prefix of the scalars left on  *)
(* which p holds, and nothing more: it stops before the first scalar p     *)
(* fails on, or with the cursor exhausted, also when p holds of '\0'; a    *)
(* '\0' of the input is a scalar like any other.                           *)
(***************************************************************************)
\* The length of the longest prefix of s whose scalars are all in P.
LongestPrefix(P, s) ==
    CHOOSE n \in 0..Len(s) :
        /\ \A i \in 1..n : s[i] \in P
        /\ n < Len(s) => s[n + 1] \notin P

C15_TakeWhile ==
    [][called'.op = "take_while" =>
         LET n == LongestPrefix(called'.ret, chars)
         IN  /\ chars' = SubSeq(chars, n + 1, Len(chars))
             /\ takes' = takes + n]_vars

\* take_while(c != '-') consumed a '\0' of the input and stopped at the '-'
\* after it.
C15_Witness ==
    /\ called.op = "take_while"
    /\ NUL \in called.ret
    /\ "-" \notin called.ret
    /\ Len(source) = 3
    /\ source[2] = NUL
    /\ chars = <<"-">>

(***************************************************************************)
(* C17.  A call of Lexer::next that returns Err moves the offset over      *)
(* leading whitespace only; so when that offset is below the length of the *)
(* source, the next call returns the same Err and leaves the offset there: *)
(* the iterator never returns None.                                        *)
(***************************************************************************)
C17_ErrRepeats ==
    /\ [][item'.tag = "Err" =>
            /\ offset' >= offset
            /\ \A i \in (IndexAt(offset) + 1)..IndexAt(offset') :
                   is_whitespace(source[i])
            /\ offset' < L => ~is_whitespace(source[IndexAt(offset') + 1])]_vars
    /\ [][(item.tag = "Err" /\ offset < L) =>
            (item' = item /\ offset' = offset)]_vars

\* The same Err has been returned three times after a token, at an offset
\* inside the source.
C17_Witness ==
    /\ nexts = 4
    /\ item.tag = "Err"
    /\ offset > 0
    /\ offset < L

(***************************************************************************)
(* C18.  When only whitespace is left at the offset (or nothing), next()   *)
(* returns None: whitespace yields no item.                                *)
(***************************************************************************)
C18_TrailingWhitespaceEnds ==
    [][(\A i \in (IndexAt(offset) + 1)..Len(source) :
            is_whitespace(source[i]))
         => item'.tag = "None"]_vars

(***************************************************************************)
(* C19.  Of a digit literal at the offset, next() returns                  *)
(* Err(UnecessaryLeadingZeroes) when its digit run before any '.' has more *)
(* than one digit and starts with 0, and a DigitInteger or DigitDouble     *)
(* token otherwise.                                                        *)
(***************************************************************************)
\* The index in the source of the first scalar that is no whitespace, from
\* the offset on (Len(source) + 1 when there is none).
FirstAfterWhitespace ==
    IndexAt(offset) + 1
        + LongestPrefix(Whitespaces,
                        SubSeq(source, IndexAt(offset) + 1, Len(source)))

C19_LeadingZeroesRejected ==
    [][LET i == FirstAfterWhitespace
           j == RunEnd(AsciiDigits, i)
       IN  (offset < L /\ i <= Len(source) /\ source[i] \in AsciiDigits) =>
             IF j > i /\ source[i] = "0"
             THEN /\ item'.tag = "Err"
                  /\ item'.error.error = "UnecessaryLeadingZeroes"
             ELSE /\ item'.tag = "Ok"
                  /\ item'.token.tag \in {"DigitInteger", "DigitDouble"}]_vars

(***************************************************************************)
(* C20.  Every Err(UnrecognizedToken(p)) and Err(UnecessaryLeadingZeroes(p)) *)
(* carries the byte offset in the source where the offending text starts:  *)
(* p is the offset of the Lexer after the whitespace is skipped.           *)
(***************************************************************************)
C20_ErrPositionIsAbsolute ==
    [][(/\ item'.tag = "Err"
        /\ item'.error.error
             \in {"UnrecognizedToken", "UnecessaryLeadingZeroes"})
         => item'.error.position = offset']_vars

===========================================================================
